---- MODULE Spec2Model ----
(***************************************************************************)
(* A model of github.com/cdzombak/heartbeat: a liveness-tracking heartbeat *)
(* emitter.  NewHeartbeat validates a Config; Start launches the push      *)
(* ticker loop and the health listener once; Alive records the latest      *)
(* liveness timestamp; the push loop and the health handler read it        *)
(* through okUnlocked.                                                     *)
(*                                                                         *)
(* Time is discrete.  One model time unit is half a second, so that        *)
(* heartbeat intervals below, at and above time.Second are all in range.   *)
(* Timestamps are integers counted from Go's zero time.Time (ZeroTime).    *)
(***************************************************************************)
EXTENDS Integers, Sequences, FiniteSets, TLC

\* ------------------------------------------------------------------ bounds
\* Largest HeartbeatInterval / LivenessThreshold / clock span explored.
MaxInterval == 3
MaxThreshold == 2
MaxClock == 4

\* ------------------------------------------------------- program constants
\* time.Second, in model time units (half seconds).
Second == 2
\* The largest valid TCP port.
MaxPort == 65535
\* The zero time.Time that lastAlive holds after construction.
ZeroTime == 0

\* The wall clock when the monitor is constructed.  A real clock is some two
\* thousand years after the zero time.Time while a time.Duration spans at
\* most 292 years, so the clock is further from ZeroTime than any threshold.
Epoch == MaxThreshold + 1

\* The nil *heartbeat, the nil error, an unlocked h.mu.
Nil == [nil |-> TRUE]
NoError == "no error"
Free == "free"

VARIABLES
    cfg,          \* the *Config handed to NewHeartbeat
    hb,           \* the *heartbeat returned (Nil before/without construction)
    err,          \* the error returned by NewHeartbeat
    now,          \* the wall clock
    lastAlive,    \* h.lastAlive
    started,      \* h.started
    mu,           \* h.mu: Free, or the operation holding it
    pushLoops,    \* push ticker loops launched so far
    listeners,    \* health listener goroutines launched so far
    pushPc,       \* push loop: "off", "wait" (on ticker.C) or "get" (I/O in flight)
    nextTick,     \* the time of the ticker's next tick
    tickChan,     \* ticker.C (capacity 1): the times of the buffered ticks
    ticksDropped, \* ticks the ticker dropped because ticker.C was full
    sentAt,       \* when the request in flight was issued
    lastOutcome,  \* the response of the current tick's request, once handled
    tickCbs,      \* errors handed to onError by the current tick
    listener,     \* health listener: "off", "starting", "serving", "exited", "closed"
    listenCbs,    \* errors handed to onError by the listener goroutine
    req,          \* the health request being handled (NoRequest if none)
    resp,         \* the response written for req (NoResponse until written)
    maxReported,  \* history: <<the largest timestamp passed to Alive>>, <<>> if none
    reportCount   \* history: completed Alive calls (0, 1, 2 = two or more)

vars == <<cfg, hb, err, now, lastAlive, started, mu, pushLoops, listeners,
          pushPc, nextTick, tickChan, ticksDropped, sentAt, lastOutcome,
          tickCbs, listener, listenCbs, req, resp, maxReported, reportCount>>

\* ------------------------------------------------------------ construction

URLs == {"", "http://kuma/push"}
Ports == {-1, 0, 8080, MaxPort, MaxPort + 1, 70000}
Intervals == -1 .. MaxInterval
Thresholds == -1 .. MaxThreshold
HTTPTimeouts == -1 .. (MaxInterval + 1)

\* Every Config the constructor is tried on.
Configs ==
    [HeartbeatInterval : Intervals, LivenessThreshold : Thresholds,
     HeartbeatURL : URLs, HTTPTimeout : HTTPTimeouts, Port : Ports,
     OnError : BOOLEAN]

ThresholdInvalid(c) == c.LivenessThreshold <= 0

IntervalInvalid(c) == c.HeartbeatInterval <= 0

TimeoutStrictlyAbove(c) == c.HTTPTimeout # 0 /\ c.HTTPTimeout > c.HeartbeatInterval
TimeoutInvalid(c) == c.HTTPTimeout # 0 /\ c.HTTPTimeout >= c.HeartbeatInterval

PortUpperOnly(c) == c.Port > MaxPort
PortInvalid(c) == c.Port < 0 \/ c.Port > MaxPort

URLRequired(c) == c.HeartbeatURL = ""
NothingConfigured(c) == c.HeartbeatURL = "" /\ c.Port = 0

EffectiveTimeoutNoFloor(c) ==
    IF c.HTTPTimeout = 0 THEN c.HeartbeatInterval - Second ELSE c.HTTPTimeout
\* timeout := cfg.HTTPTimeout, defaulted to max(interval - 1s, 1s) when zero.
EffectiveTimeout(c) ==
    IF c.HTTPTimeout = 0
    THEN IF c.HeartbeatInterval - Second < Second
         THEN Second
         ELSE c.HeartbeatInterval - Second
    ELSE c.HTTPTimeout

\* The checks of NewHeartbeat in source order: the first failing one decides.
ConfigError(c) ==
    IF ThresholdInvalid(c) THEN "liveness threshold must be positive"
    ELSE IF IntervalInvalid(c) THEN "heartbeat interval must be positive"
    ELSE IF TimeoutInvalid(c) THEN "timeout must be less than heartbeat interval"
    ELSE IF PortInvalid(c) THEN "port must be in the range [0, 65535]"
    ELSE IF NothingConfigured(c) THEN "heartbeat URL must be set"
    ELSE NoError

NewHeartbeat(c) ==
    IF ConfigError(c) # NoError
    THEN [hb |-> Nil, err |-> ConfigError(c)]
    ELSE [hb |-> [livenessThreshold |-> c.LivenessThreshold,
                  heartbeatInterval |-> c.HeartbeatInterval,
                  heartbeatURL |-> c.HeartbeatURL,
                  onError |-> c.OnError,
                  timeout |-> EffectiveTimeout(c),
                  serverPort |-> c.Port],
          err |-> NoError]

\* ----------------------------------------------------------------- liveness

\* time.Since(t) against the model clock.
Since(t) == now - t

okInclusive == Since(lastAlive) <= hb.livenessThreshold
okUntil == lastAlive - now < hb.livenessThreshold
\* okUnlocked's result when it gets the lock in the current state.
okUnlocked == Since(lastAlive) < hb.livenessThreshold

\* Timestamps a caller may pass to Alive: just before, at and just after the
\* zero time.Time, and any time from construction to one unit after the last
\* clock value.
PreZero == ZeroTime - 1
Stamps == (PreZero .. (ZeroTime + 1)) \cup (Epoch .. (Epoch + MaxClock + 1))

AliveAlwaysStore(at) == at
AliveStoreNotFuture(at) == IF lastAlive < at /\ at <= now THEN at ELSE lastAlive
\* if h.lastAlive.Before(at) { h.lastAlive = at }
AliveStore(at) == IF lastAlive < at THEN at ELSE lastAlive

Max2(a, b) == IF a < b THEN b ELSE a

\* ------------------------------------------------------------ the push side

\* Response bodies: nothing, bytes that are not JSON, or a JSON object whose
\* "ok" member is true, false, missing or of the wrong type (a string).
Bodies ==
    {[kind |-> "empty", ok |-> "absent", msg |-> ""],
     [kind |-> "garbage", ok |-> "absent", msg |-> ""]}
    \cup [kind : {"json"}, ok : {"true", "false", "absent", "string"},
          msg : {"", "bad"}]

NackBad == [kind |-> "json", ok |-> "false", msg |-> "bad"]
OkTrue == [kind |-> "json", ok |-> "true", msg |-> ""]
NoBody == [kind |-> "empty", ok |-> "absent", msg |-> ""]

\* What h.client.Get and io.ReadAll can come back with before the deadline.
Outcomes ==
    {[err |-> "connection refused", status |-> 0, readErr |-> FALSE, body |-> NoBody]}
    \cup [err : {NoError}, status : {300, 503}, readErr : {FALSE},
          body : {NoBody, NackBad}]
    \cup [err : {NoError}, status : {200}, readErr : {FALSE},
          body : {b \in Bodies : b.msg = "" \/ b.ok = "false"}]
    \cup [err : {NoError}, status : {299}, readErr : {FALSE},
          body : {OkTrue, NackBad}]
    \cup [err : {NoError}, status : {200}, readErr : {TRUE}, body : {NoBody}]

\* The transport error of a request that ran into http.Client.Timeout.
TimedOut ==
    [err |-> "Client.Timeout exceeded", status |-> 0, readErr |-> FALSE,
     body |-> NoBody]

\* A 2xx response whose body was still being read at the deadline, which the
\* client's timeout covers too: io.ReadAll returns an error.
ReadTimedOut ==
    [err |-> NoError, status |-> 200, readErr |-> TRUE, body |-> NoBody]

NoOutcome == [err |-> "none"]

\* resp.Status
StatusText(code) ==
    CASE code = 200 -> "200 OK"
      [] code = 299 -> "299 "
      [] code = 300 -> "300 Multiple Choices"
      [] code = 503 -> "503 Service Unavailable"
      [] OTHER -> "other"

\* fmt.Errorf("heartbeat to '%s' failed: %v", h.heartbeatURL, detail)
PushErr(detail) == [url |-> hb.heartbeatURL, detail |-> detail]

\* json.Unmarshal(bodyBytes, &ukRespBody) into a zero uptimeKumaPushResp.
Unmarshal(body) ==
    IF body.kind # "json" \/ body.ok = "string"
    THEN [err |-> TRUE, OK |-> FALSE, Msg |-> ""]
    ELSE [err |-> FALSE, OK |-> (body.ok = "true"), Msg |-> body.msg]

BadStatus(code) == code < 200 \/ code > 299

\* The error after the Get: transport error first, then a non-2xx status.
GetError(o) ==
    IF o.err # NoError THEN PushErr(o.err)
    ELSE IF BadStatus(o.status) THEN PushErr(StatusText(o.status))
    ELSE Nil

\* The error after the body was read and parsed.
AckError(o) ==
    IF ~Unmarshal(o.body).err /\ ~Unmarshal(o.body).OK
    THEN PushErr(Unmarshal(o.body).Msg)
    ELSE Nil

CallbacksTwice(o) ==
    IF GetError(o) # Nil
    THEN IF hb.onError THEN <<GetError(o)>> ELSE <<>>
    ELSE IF o.readErr THEN <<>>
    ELSE IF AckError(o) # Nil /\ hb.onError THEN <<AckError(o), AckError(o)>>
    ELSE <<>>
\* The errors the loop body hands to `go h.onError(err)` for one response.
Callbacks(o) ==
    IF GetError(o) # Nil
    THEN IF hb.onError THEN <<GetError(o)>> ELSE <<>>
    ELSE IF o.readErr THEN <<>>
    ELSE IF AckError(o) # Nil /\ hb.onError THEN <<AckError(o)>>
    ELSE <<>>

\* http.Client.Timeout: a deadline only when positive.
HasDeadline == hb.timeout > 0
Deadline == sentAt + hb.timeout

\* --------------------------------------------------------- the health side

Methods == {"GET", "POST", "HEAD"}
Paths == {"/", "/healthz"}

NoRequest == [method |-> "none"]
NoResponse == [status |-> 0, body |-> "", read |-> FALSE]

HandlerIgnoresMethod(method) ==
    IF okUnlocked
    THEN [status |-> 200, body |-> "{ok:true}", read |-> TRUE]
    ELSE [status |-> 503, body |-> "{ok:false}", read |-> TRUE]
\* The mux handler registered on "/": the response written for a request.
Handler(method) ==
    IF method # "GET"
    THEN [status |-> 405, body |-> "Method Not Allowed", read |-> FALSE]
    ELSE IF okUnlocked
    THEN [status |-> 200, body |-> "{ok:true}", read |-> TRUE]
    ELSE [status |-> 503, body |-> "{ok:false}", read |-> TRUE]

\* ------------------------------------------------------------------ states

\* The state right after NewHeartbeat(c) returned a monitor.
Constructed(c) ==
    /\ cfg = c
    /\ hb = NewHeartbeat(c).hb
    /\ err = NewHeartbeat(c).err
    /\ now = Epoch
    /\ lastAlive = ZeroTime
    /\ started = FALSE
    /\ mu = Free
    /\ pushLoops = 0
    /\ listeners = 0
    /\ pushPc = "off"
    /\ nextTick = 0
    /\ tickChan = <<>>
    /\ ticksDropped = 0
    /\ sentAt = 0
    /\ lastOutcome = NoOutcome
    /\ tickCbs = <<>>
    /\ listener = "off"
    /\ listenCbs = <<>>
    /\ req = NoRequest
    /\ resp = NoResponse
    /\ maxReported = <<>>
    /\ reportCount = 0

\* The configurations the running monitor is explored under: every valid
\* combination of interval, threshold, timeout (negative, unset or set) and
\* error callback, for a given choice of push URL and server port.
RunConfigs(urls, ports) ==
    {c \in [HeartbeatInterval : 1 .. MaxInterval,
            LivenessThreshold : 1 .. MaxThreshold,
            HeartbeatURL : urls, HTTPTimeout : -1 .. (MaxInterval - 1),
            Port : ports, OnError : BOOLEAN] : NewHeartbeat(c).err = NoError}

\* A monitor with a push URL and no server port.
InitPush == \E c \in RunConfigs({"http://kuma/push"}, {0}) : Constructed(c)

\* A monitor with a server port and no push URL; the interval and the HTTP
\* timeout are then never read, and are left at one value each.
InitHealth ==
    \E c \in RunConfigs({""}, {8080}) :
        /\ c.HeartbeatInterval = MaxInterval
        /\ c.HTTPTimeout = 0
        /\ Constructed(c)

\* A monitor with both, at the longest interval and its default timeout.
Init ==
    \E c \in RunConfigs({"http://kuma/push"}, {8080}) :
        /\ c.HeartbeatInterval = MaxInterval
        /\ c.HTTPTimeout = 0
        /\ Constructed(c)

\* Before NewHeartbeat is called on a Config, valid or not.
NotCalled == "NewHeartbeat not called"
InitNew ==
    \E c \in Configs :
        /\ cfg = c
        /\ hb = Nil
        /\ err = NotCalled
        /\ now = Epoch
        /\ lastAlive = ZeroTime
        /\ started = FALSE
        /\ mu = Free
        /\ pushLoops = 0
        /\ listeners = 0
        /\ pushPc = "off"
        /\ nextTick = 0
        /\ tickChan = <<>>
        /\ ticksDropped = 0
        /\ sentAt = 0
        /\ lastOutcome = NoOutcome
        /\ tickCbs = <<>>
        /\ listener = "off"
        /\ listenCbs = <<>>
        /\ req = NoRequest
        /\ resp = NoResponse
        /\ maxReported = <<>>
        /\ reportCount = 0

callerVars == <<cfg, hb, err, now>>
pushVars == <<pushPc, nextTick, tickChan, ticksDropped, sentAt, lastOutcome, tickCbs>>
healthVars == <<listener, listenCbs, req, resp>>
aliveVars == <<lastAlive, maxReported, reportCount>>
startVars == <<started, pushLoops, listeners>>

\* ------------------------------------------------------------- constructor

\* NewHeartbeat(cfg) returns.
New ==
    /\ err = NotCalled
    /\ hb' = NewHeartbeat(cfg).hb
    /\ err' = NewHeartbeat(cfg).err
    /\ UNCHANGED <<cfg, now, mu, pushVars, healthVars, aliveVars, startVars>>

\* ----------------------------------------------------------------- callers

\* h.mu.Lock() at the top of Start, by any caller.
StartLock ==
    /\ mu = Free
    /\ mu' = "Start"
    /\ UNCHANGED <<callerVars, pushVars, healthVars, aliveVars, startVars>>

StartNeverReturnsEarly == FALSE
\* if h.started { return }
StartReturnsEarly == started

startHeartbeatAlways ==
    /\ pushLoops' = pushLoops + 1
    /\ pushPc' = "wait"
    /\ nextTick' = now + hb.heartbeatInterval
\* startHeartbeatLocked: a ticker and its loop, unless there is no URL.
startHeartbeatLocked ==
    IF hb.heartbeatURL = ""
    THEN UNCHANGED <<pushLoops, pushPc, nextTick>>
    ELSE /\ pushLoops' = pushLoops + 1
         /\ pushPc' = "wait"
         /\ nextTick' = now + hb.heartbeatInterval

\* startHttpServerLocked: the listener goroutine, unless there is no port.
startHttpServerLocked ==
    IF hb.serverPort = 0
    THEN UNCHANGED <<listeners, listener>>
    ELSE /\ listeners' = listeners + 1
         /\ listener' = "starting"

\* The body of Start under the lock, and the deferred Unlock.
StartBody ==
    /\ mu = "Start"
    /\ mu' = Free
    /\ IF StartReturnsEarly
       THEN UNCHANGED <<started, pushLoops, listeners, pushPc, nextTick, listener>>
       ELSE /\ started' = TRUE
            /\ startHeartbeatLocked
            /\ startHttpServerLocked
    /\ UNCHANGED <<callerVars, tickChan, ticksDropped, sentAt, lastOutcome,
                   tickCbs, listenCbs, req, resp, aliveVars>>

\* h.mu.Lock() at the top of Alive, by any caller.
AliveLock ==
    /\ mu = Free
    /\ mu' = "Alive"
    /\ UNCHANGED <<callerVars, pushVars, healthVars, aliveVars, startVars>>

\* The body of Alive(at) under the lock, and the deferred Unlock.
AliveBody(at) ==
    /\ mu = "Alive"
    /\ mu' = Free
    /\ lastAlive' = AliveStore(at)
    /\ maxReported' = IF maxReported = <<>> THEN <<at>>
                      ELSE <<Max2(maxReported[1], at)>>
    /\ reportCount' = IF reportCount < 2 THEN reportCount + 1 ELSE 2
    /\ UNCHANGED <<callerVars, pushVars, healthVars, startVars>>

\* --------------------------------------------------------------- push loop

\* The ticker fires: a non-blocking send on ticker.C, dropped when it is full.
TickerFire ==
    /\ pushPc # "off"
    /\ now = nextTick
    /\ nextTick' = nextTick + hb.heartbeatInterval
    /\ IF tickChan = <<>>
       THEN tickChan' = <<now>> /\ UNCHANGED ticksDropped
       ELSE ticksDropped' = ticksDropped + 1 /\ UNCHANGED tickChan
    /\ UNCHANGED <<callerVars, mu, pushPc, sentAt, lastOutcome, tickCbs,
                   healthVars, aliveVars, startVars>>

SendsWhenDead == TRUE
\* if !h.okUnlocked() { continue }
SendsThisTick == okUnlocked

PushTickWhileInFlight ==
    /\ pushPc \in {"wait", "get"}
    /\ tickChan # <<>>
    /\ mu = Free
    /\ tickChan' = <<>>
    /\ lastOutcome' = NoOutcome
    /\ tickCbs' = <<>>
    /\ IF SendsThisTick
       THEN pushPc' = "get" /\ sentAt' = now
       ELSE UNCHANGED <<pushPc, sentAt>>
    /\ UNCHANGED <<callerVars, mu, nextTick, ticksDropped, healthVars,
                   aliveVars, startVars>>
PushTickHoldsLock ==
    /\ pushPc = "wait"
    /\ tickChan # <<>>
    /\ mu = Free
    /\ tickChan' = <<>>
    /\ lastOutcome' = NoOutcome
    /\ tickCbs' = <<>>
    /\ IF SendsThisTick
       THEN pushPc' = "get" /\ sentAt' = now /\ mu' = "okUnlocked"
       ELSE UNCHANGED <<pushPc, sentAt, mu>>
    /\ UNCHANGED <<callerVars, nextTick, ticksDropped, healthVars,
                   aliveVars, startVars>>
\* One iteration begins: receive from ticker.C, check liveness under the
\* lock, and issue the GET if alive.
PushTick ==
    /\ pushPc = "wait"
    /\ tickChan # <<>>
    /\ mu = Free
    /\ tickChan' = <<>>
    /\ lastOutcome' = NoOutcome
    /\ tickCbs' = <<>>
    /\ IF SendsThisTick
       THEN pushPc' = "get" /\ sentAt' = now
       ELSE UNCHANGED <<pushPc, sentAt>>
    /\ UNCHANGED <<callerVars, mu, nextTick, ticksDropped, healthVars,
                   aliveVars, startVars>>

PushResponseReturns(o) ==
    /\ pushPc = "get"
    /\ IF HasDeadline /\ now >= Deadline
       THEN o \in {TimedOut, ReadTimedOut}
       ELSE o \in Outcomes
    /\ pushPc' = IF GetError(o) # Nil THEN "off" ELSE "wait"
    /\ lastOutcome' = o
    /\ tickCbs' = Callbacks(o)
    /\ UNCHANGED <<callerVars, mu, nextTick, tickChan, ticksDropped, sentAt,
                   healthVars, aliveVars, startVars>>

\* The GET (and the read of its body) comes back with o, and the rest of
\* the iteration runs: classification and the error callback.
PushResponse(o) ==
    /\ pushPc = "get"
    /\ IF HasDeadline /\ now >= Deadline
       THEN o \in {TimedOut, ReadTimedOut}
       ELSE o \in Outcomes
    /\ pushPc' = "wait"
    /\ lastOutcome' = o
    /\ tickCbs' = Callbacks(o)
    /\ UNCHANGED <<callerVars, mu, nextTick, tickChan, ticksDropped, sentAt,
                   healthVars, aliveVars, startVars>>

\* ---------------------------------------------------------- health listener

\* http.ListenAndServe bound the port and serves.
ListenBind ==
    /\ listener = "starting"
    /\ listener' = "serving"
    /\ UNCHANGED <<callerVars, mu, pushVars, listenCbs, req, resp, aliveVars,
                   startVars>>

\* http.ErrServerClosed and the errors http.ListenAndServe can return: the
\* port could not be bound, or the accept loop failed.  ErrServerClosed is
\* only returned after Shutdown or Close; it is kept among the values so
\* that the filter of the goroutine is exercised.
ErrServerClosed == "http: Server closed"
ListenErrors == {"listen tcp: address already in use", ErrServerClosed}

ListenCallbacksUnfiltered(e) ==
    IF hb.onError THEN Append(listenCbs, e) ELSE listenCbs
\* err != nil && !errors.Is(err, http.ErrServerClosed) && h.onError != nil
ListenCallbacks(e) ==
    IF e # ErrServerClosed /\ hb.onError THEN Append(listenCbs, e)
    ELSE listenCbs

\* http.ListenAndServe returns e and the goroutine ends: "closed" after
\* ErrServerClosed, "exited" after any other error.
ListenFail(e) ==
    /\ listener \in {"starting", "serving"}
    /\ listener' = IF e = ErrServerClosed THEN "closed" ELSE "exited"
    /\ listenCbs' = ListenCallbacks(e)
    /\ UNCHANGED <<callerVars, mu, pushVars, req, resp, aliveVars, startVars>>

\* A request arrives at the listener, on any path.
HealthRequest(method, path) ==
    /\ listener = "serving"
    /\ req = NoRequest \/ resp # NoResponse
    /\ req' = [method |-> method]
    /\ resp' = NoResponse
    /\ UNCHANGED <<callerVars, mu, pushVars, listener, listenCbs, aliveVars,
                   startVars>>

\* The handler runs; a GET needs the lock for okUnlocked.
HealthServe ==
    /\ req # NoRequest
    /\ resp = NoResponse
    /\ req.method = "GET" => mu = Free
    /\ resp' = Handler(req.method)
    /\ UNCHANGED <<callerVars, mu, pushVars, listener, listenCbs, req,
                   aliveVars, startVars>>

\* -------------------------------------------------------------------- time

\* The clock advances one unit.  Steps that take no time come first: a held
\* lock is released, a due tick fires, a waiting loop takes a buffered tick,
\* and a request in flight does not outlive the client's deadline.
Advance ==
    /\ now < Epoch + MaxClock
    /\ mu = Free
    /\ pushPc # "off" => now < nextTick
    /\ pushPc = "wait" => tickChan = <<>>
    /\ (pushPc = "get" /\ HasDeadline) => now < Deadline
    /\ now' = now + 1
    /\ UNCHANGED <<cfg, hb, err, mu, pushVars, healthVars, aliveVars, startVars>>

Callers ==
    \/ StartLock
    \/ StartBody
    \/ AliveLock
    \/ \E at \in Stamps : AliveBody(at)

PushSender ==
    \/ TickerFire
    \/ PushTick
    \/ \E o \in Outcomes \cup {TimedOut} : PushResponse(o)

HealthServer ==
    \/ ListenBind
    \/ \E e \in ListenErrors : ListenFail(e)
    \/ \E m \in Methods, p \in Paths : HealthRequest(m, p)
    \/ HealthServe

Next == Callers \/ PushSender \/ HealthServer \/ Advance

\* Without a server port the health actions are never enabled, and without a
\* push URL the push actions are never enabled.
NextPush == Callers \/ PushSender \/ Advance
NextHealth == Callers \/ HealthServer \/ Advance

\* The running monitor with both outputs, with the push output only, with
\* the health output only; and the constructor on every Config.
Spec == Init /\ [][Next]_vars
SpecPush == InitPush /\ [][NextPush]_vars
SpecHealth == InitHealth /\ [][NextHealth]_vars
SpecNew == InitNew /\ [][New]_vars

\* The whole life of a monitor, from before its construction: NewHeartbeat
\* on a valid Config with a push URL, a server port or both (at the longest
\* interval and its default timeout), then every operation on the monitor
\* it returned.
InitAll ==
    /\ InitNew
    /\ cfg \in RunConfigs(URLs, {0, 8080})
    /\ cfg.HeartbeatInterval = MaxInterval
    /\ cfg.HTTPTimeout = 0
NextAll == New \/ (err = NoError /\ Next)
SpecAll == InitAll /\ [][NextAll]_vars

\* ------------------------------------------------------------------ claims

\* The largest timestamp reported so far, counted from the zero time.Time
\* that lastAlive starts at.
HighestReport ==
    IF maxReported = <<>> THEN ZeroTime ELSE Max2(ZeroTime, maxReported[1])

\* C1 (as stated): once Alive calls have returned, lastAlive equals the
\* largest timestamp among them, max(t1, t2, ...).
C1_MaxOfReports == reportCount > 0 => lastAlive = maxReported[1]

\* C1 (amended): lastAlive equals the largest of the zero time.Time and the
\* reported timestamps, whatever the order of the calls; a report that is not
\* newer than lastAlive leaves it unchanged.
C1_HighestReportWins == lastAlive = HighestReport

C1_Witness ==
    /\ reportCount = 2
    /\ started
    /\ lastAlive = maxReported[1]
    /\ lastAlive >= Epoch

\* C2: after a single report at T, with threshold D, the liveness predicate
\* is true at every clock value in [T, T+D) and false at every one >= T+D.
C2_AliveWindow ==
    reportCount = 1 =>
        /\ (maxReported[1] <= now /\ now < maxReported[1] + hb.livenessThreshold)
               => okUnlocked
        /\ now >= maxReported[1] + hb.livenessThreshold => ~okUnlocked

C2_Witness ==
    /\ reportCount = 1
    /\ maxReported[1] >= Epoch
    /\ now = maxReported[1] + hb.livenessThreshold
    /\ ~okUnlocked

\* The loop takes a tick from ticker.C in this step.
TakesTick == tickChan # <<>> /\ tickChan' = <<>>

\* C3: a tick taken while the liveness predicate is false issues no request
\* and hands nothing to onError.
C3_NoSendWhenNotAlive ==
    [][(TakesTick /\ ~(now - lastAlive < hb.livenessThreshold))
         => (pushPc' = "wait" /\ tickCbs' = <<>> /\ lastOutcome' = NoOutcome)]_vars

\* A tick has been taken and skipped on a monitor that was never reported alive.
C3_Witness ==
    /\ reportCount = 0
    /\ pushPc = "wait"
    /\ tickChan = <<>>
    /\ nextTick >= Epoch + 2 * hb.heartbeatInterval
    /\ lastOutcome = NoOutcome

\* C4: however often Start is called, at most one push loop and one listener
\* are launched, nothing is launched once started is true, and started never
\* returns to false.
C4_StartOnce ==
    /\ [](pushLoops <= 1 /\ listeners <= 1)
    /\ [][started => (started' /\ pushLoops' = pushLoops
                                /\ listeners' = listeners)]_vars

\* A later Start call holds the lock on a started monitor.
C4_Witness ==
    /\ started
    /\ mu = "Start"
    /\ pushLoops = 1
    /\ listeners = 1

\* C5: with an onError callback, a tick whose send ends in a transport
\* error, a non-2xx status or a 2xx acknowledgement with ok false hands
\* exactly one error to onError, carrying the transport detail, the status
\* text or the acknowledgement's msg; a 2xx acknowledgement with ok true
\* hands it nothing.
C5_OneCallbackPerError ==
    (lastOutcome # NoOutcome /\ hb.onError) =>
        IF lastOutcome.err # NoError
        THEN tickCbs = <<[url |-> cfg.HeartbeatURL, detail |-> lastOutcome.err]>>
        ELSE IF lastOutcome.status < 200 \/ lastOutcome.status > 299
        THEN tickCbs = <<[url |-> cfg.HeartbeatURL,
                          detail |-> StatusText(lastOutcome.status)]>>
        ELSE IF lastOutcome.readErr \/ lastOutcome.body.kind # "json"
        THEN TRUE
        ELSE IF lastOutcome.body.ok = "false"
        THEN tickCbs = <<[url |-> cfg.HeartbeatURL,
                          detail |-> lastOutcome.body.msg]>>
        ELSE IF lastOutcome.body.ok = "true"
        THEN tickCbs = <<>>
        ELSE TRUE

C5_Witness ==
    /\ hb.onError
    /\ lastOutcome # NoOutcome
    /\ lastOutcome.status = 200
    /\ lastOutcome.body = NackBad
    /\ tickCbs = <<[url |-> "http://kuma/push", detail |-> "bad"]>>

\* C6: the response to a health request is decided by its method and by the
\* liveness predicate when it is handled: 405 and no read of the state for a
\* method other than GET, 200 {"ok":true} for a GET while alive, 503
\* {"ok":false} for a GET while not alive.
C6_HealthAnswer ==
    [][(resp = NoResponse /\ resp' # NoResponse) =>
         resp' = IF req.method # "GET"
                 THEN [status |-> 405, body |-> "Method Not Allowed",
                       read |-> FALSE]
                 ELSE IF now - lastAlive < hb.livenessThreshold
                 THEN [status |-> 200, body |-> "{ok:true}", read |-> TRUE]
                 ELSE [status |-> 503, body |-> "{ok:false}", read |-> TRUE]]_vars

\* A GET answered 503 after the only report has aged past the threshold.
C6_Witness ==
    /\ reportCount = 1
    /\ maxReported[1] >= Epoch
    /\ now >= maxReported[1] + hb.livenessThreshold
    /\ req.method = "GET"
    /\ resp.status = 503

\* C7 (as stated, for monitors whose HTTPTimeout is left unset): no tick is
\* lost, and no tick waits in ticker.C past the time it was scheduled for,
\* whatever the request of the tick before it does.
C7_TicksOnSchedule ==
    cfg.HTTPTimeout = 0 =>
        /\ ticksDropped = 0
        /\ tickChan # <<>> => tickChan[1] = now

\* NewHeartbeat has returned.
Called == err # NotCalled

\* The other checks of the constructor pass.
OtherwiseValid ==
    /\ cfg.LivenessThreshold > 0
    /\ cfg.HeartbeatInterval > 0
    /\ cfg.HTTPTimeout = 0 \/ cfg.HTTPTimeout < cfg.HeartbeatInterval
    /\ cfg.Port >= 0 /\ cfg.Port <= 65535

\* C8: with neither a push URL nor a port, construction fails and returns no
\* monitor; with either or both, it does not fail on that check (and
\* succeeds when the rest of the Config is valid).
C8_NeedsUrlOrPort ==
    Called =>
        IF cfg.HeartbeatURL = "" /\ cfg.Port = 0
        THEN err # NoError /\ hb = Nil
        ELSE /\ err # "heartbeat URL must be set"
             /\ OtherwiseValid => (err = NoError /\ hb # Nil)

C8_Witness ==
    /\ Called
    /\ OtherwiseValid
    /\ cfg.HeartbeatURL = "" /\ cfg.Port = 0
    /\ err = "heartbeat URL must be set"
    /\ hb = Nil

\* C9: a non-zero HTTPTimeout that is greater than or equal to
\* HeartbeatInterval makes construction fail and return no monitor.
C9_TimeoutBelowInterval ==
    (Called /\ cfg.HTTPTimeout # 0 /\ cfg.HTTPTimeout >= cfg.HeartbeatInterval)
        => (err # NoError /\ hb = Nil)

C9_Witness ==
    /\ Called
    /\ cfg.HTTPTimeout = cfg.HeartbeatInterval
    /\ err = "timeout must be less than heartbeat interval"
    /\ hb = Nil

\* C10: a port below 0 or above 65535 makes construction fail and return no
\* monitor, with or without a push URL.
C10_PortInRange ==
    (Called /\ (cfg.Port < 0 \/ cfg.Port > 65535))
        => (err # NoError /\ hb = Nil)

C10_Witness ==
    /\ Called
    /\ cfg.Port = 70000
    /\ cfg.HeartbeatURL # ""
    /\ err = "port must be in the range [0, 65535]"
    /\ hb = Nil

\* NewHeartbeat has returned a monitor.
Accepted == Called /\ err = NoError

\* C11: for every accepted Config the client's timeout is HTTPTimeout when
\* that is set, and max(HeartbeatInterval - 1 second, 1 second) when it is
\* zero.
C11_EffectiveTimeout ==
    Accepted =>
        hb.timeout = IF cfg.HTTPTimeout # 0 THEN cfg.HTTPTimeout
                     ELSE Max2(cfg.HeartbeatInterval - Second, Second)

\* An interval of one second or less with no timeout set: the floor applies.
C11_Witness ==
    /\ Accepted
    /\ cfg.HTTPTimeout = 0
    /\ cfg.HeartbeatInterval <= Second
    /\ hb.timeout = Second

\* C12: until the first Alive call has returned the monitor is not alive:
\* the liveness predicate is false at every clock value, no request is sent
\* or answered, and every health GET is answered 503.
C12_NotAliveUntilReported ==
    reportCount = 0 =>
        /\ ~okUnlocked
        /\ pushPc # "get"
        /\ lastOutcome = NoOutcome
        /\ (req.method = "GET" /\ resp # NoResponse) => resp.status = 503

\* Never reported alive: a tick was taken and skipped, and a GET got 503.
C12_Witness ==
    /\ reportCount = 0
    /\ started
    /\ nextTick >= Epoch + 2 * hb.heartbeatInterval
    /\ pushPc = "wait"
    /\ tickChan = <<>>
    /\ req.method = "GET"
    /\ resp.status = 503

\* The send of the last tick ended in an error: a transport failure, a
\* non-2xx status, an unreadable body or a negative acknowledgement.
ErrorOutcome(o) ==
    /\ o # NoOutcome
    /\ \/ o.err # NoError
       \/ o.status < 200 \/ o.status > 299
       \/ o.readErr
       \/ o.body.kind = "json" /\ o.body.ok = "false"

C14_OnlyNackIsError ==
    (/\ lastOutcome # NoOutcome
     /\ lastOutcome.err = NoError
     /\ lastOutcome.status >= 200
     /\ lastOutcome.status <= 299
     /\ tickCbs # <<>>)
    => (/\ ~lastOutcome.readErr
        /\ lastOutcome.body.kind = "json"
        /\ lastOutcome.body.ok = "false")

\* C15: when http.ListenAndServe returns an error other than
\* ErrServerClosed, a monitor with an onError callback hands it that error
\* once (and a monitor without one hands nothing to anyone); ErrServerClosed
\* is handed to no one; no error is handed over while the listener has not
\* ended; and the step in which the listener ends leaves the push loop, its
\* ticker and the recorded liveness as they were, the loop still running.
C15_ListenerFailureReportedOnce ==
    /\ [](/\ listener = "exited" =>
               Len(listenCbs) = (IF hb.onError THEN 1 ELSE 0)
          /\ listener # "exited" => listenCbs = <<>>
          /\ \A i \in 1 .. Len(listenCbs) : listenCbs[i] # ErrServerClosed
          /\ pushLoops = 1 => pushPc \in {"wait", "get"})
    /\ [][(listener' # listener /\ listener' \in {"exited", "closed"}) =>
            UNCHANGED <<mu, pushVars, aliveVars, startVars>>]_vars

\* The listener has failed and reported it once, and the push loop has a
\* request in flight.
C15_Witness ==
    /\ hb.onError
    /\ listener = "exited"
    /\ listenCbs = <<"listen tcp: address already in use">>
    /\ pushPc = "get"

\* C16: the lock is only ever held by a Start or an Alive call that is
\* between its Lock and its deferred Unlock, never by the push loop or the
\* handler; a holder's next step releases it whatever the network does; and
\* whenever it is free, also with a push request in flight, an Alive call can
\* take it and a pending health GET can read the state.
C16_LockNotHeldAcrossIO ==
    /\ mu \in {Free, "Start", "Alive"}
    /\ mu = "Alive" => ENABLED (\E at \in Stamps : AliveBody(at))
    /\ mu = "Start" => ENABLED StartBody
    /\ mu = Free =>
          /\ ENABLED AliveLock
          /\ (req # NoRequest /\ resp = NoResponse) => ENABLED HealthServe

\* An Alive call holds the lock while a push request has been in flight for
\* some time and a health GET is waiting for its answer.
C16_Witness ==
    /\ pushPc = "get"
    /\ now > sentAt
    /\ mu = "Alive"
    /\ req.method = "GET"
    /\ resp = NoResponse

\* C17: until Start has run, before and after NewHeartbeat and whatever
\* Alive calls are made, there is no push loop, no ticker, no tick, no
\* request and no listener; once Start has run, the push loop and its
\* ticker exist exactly when a push URL is configured, and the listener
\* goroutine was launched exactly when the server port is not zero.
C17_TasksOnlyAfterStartAndIfConfigured ==
    /\ ~started =>
          /\ pushLoops = 0 /\ pushPc = "off"
          /\ tickChan = <<>> /\ ticksDropped = 0
          /\ sentAt = 0 /\ lastOutcome = NoOutcome /\ tickCbs = <<>>
          /\ listeners = 0 /\ listener = "off" /\ listenCbs = <<>>
          /\ req = NoRequest /\ resp = NoResponse
    /\ started =>
          /\ pushLoops = (IF cfg.HeartbeatURL # "" THEN 1 ELSE 0)
          /\ pushPc # "off" <=> cfg.HeartbeatURL # ""
          /\ listeners = (IF cfg.Port # 0 THEN 1 ELSE 0)
          /\ listener # "off" <=> cfg.Port # 0

\* A started monitor with a server port and no push URL: the listener
\* serves, and a reported monitor has lived through a whole interval with no
\* push loop.
C17_Witness ==
    /\ started
    /\ cfg.HeartbeatURL = ""
    /\ cfg.Port # 0
    /\ listener = "serving"
    /\ pushPc = "off"
    /\ reportCount > 0
    /\ now >= Epoch + cfg.HeartbeatInterval

\* C18 (as stated): a request in flight belongs to a client whose timeout
\* is positive, and has not been in flight for longer than that timeout.
C18_AttemptsBounded ==
    pushPc = "get" =>
        /\ hb.timeout > 0
        /\ now <= sentAt + hb.timeout

\* C19 (as stated): with an onError callback, what a finished send handed to
\* it is decided in this order: the transport error if there is one; else
\* the status text if the status is not 2xx, whatever the body; else the msg
\* of the body if it was read and is an acknowledgement with ok false; else
\* nothing.
C19_Precedence ==
    (lastOutcome # NoOutcome /\ hb.onError) =>
        tickCbs =
            IF lastOutcome.err # NoError
            THEN <<[url |-> cfg.HeartbeatURL, detail |-> lastOutcome.err]>>
            ELSE IF lastOutcome.status < 200 \/ lastOutcome.status > 299
            THEN <<[url |-> cfg.HeartbeatURL,
                    detail |-> StatusText(lastOutcome.status)]>>
            ELSE IF /\ ~lastOutcome.readErr
                    /\ lastOutcome.body.kind = "json"
                    /\ lastOutcome.body.ok = "false"
            THEN <<[url |-> cfg.HeartbeatURL, detail |-> lastOutcome.body.msg]>>
            ELSE <<>>

\* C20 (as stated): the timeout of the client of every monitor NewHeartbeat
\* returns is below the monitor's HeartbeatInterval, whether HTTPTimeout was
\* set or left to its default.
C20_TimeoutBelowIntervalAlways ==
    Accepted => hb.timeout < cfg.HeartbeatInterval

\* C21: there is one push loop at most, and it is either waiting for a tick
\* or has one request in flight.  A tick is taken from ticker.C, and its
\* liveness check made, only by a loop with no request in flight; a request
\* is only issued by the step that takes a tick; and the step in which a
\* request ends takes no tick and issues no request, whatever its outcome.
C21_OneRequestInFlight ==
    /\ [](pushLoops <= 1 /\ (pushPc = "get" => lastOutcome = NoOutcome))
    /\ [][TakesTick => pushPc = "wait"]_vars
    /\ [][(pushPc' = "get" /\ (pushPc # "get" \/ sentAt' # sentAt
                                \/ lastOutcome' # lastOutcome))
            => (pushPc = "wait" /\ TakesTick)]_vars
    /\ [][(pushPc = "get" /\ lastOutcome' # lastOutcome)
            => (pushPc' = "wait" /\ tickChan' = tickChan
                /\ sentAt' = sentAt)]_vars

\* A later tick is buffered in ticker.C while the request of an earlier tick
\* is still in flight.
C21_Witness ==
    /\ pushPc = "get"
    /\ now > sentAt
    /\ tickChan # <<>>
    /\ tickChan[1] > sentAt

\* The highest timestamp reported so far has not aged past the threshold;
\* it may still lie in the future.
WithinHighestReport ==
    /\ maxReported # <<>>
    /\ now < maxReported[1] + hb.livenessThreshold

\* C22: a timestamp ahead of the clock is stored like any other.  With at
\* the highest timestamp reported so far, in whatever order the reports came,
\* at every clock value below at + LivenessThreshold (those below at
\* included) lastAlive is at and the liveness predicate is true, a tick
\* taken then issues a request, and a health GET handled then is answered
\* 200.
C22_FutureReportAccepted ==
    /\ [](WithinHighestReport =>
             (lastAlive = maxReported[1] /\ okUnlocked))
    /\ [][(WithinHighestReport /\ TakesTick) => pushPc' = "get"]_vars
    /\ [][(/\ WithinHighestReport
           /\ req.method = "GET"
           /\ resp = NoResponse /\ resp' # NoResponse)
            => resp'.status = 200]_vars

\* Two reports, the higher one still ahead of the clock: a request is in
\* flight and a health GET was answered 200.
C22_Witness ==
    /\ reportCount = 2
    /\ maxReported[1] > now
    /\ lastAlive = maxReported[1]
    /\ pushPc = "get"
    /\ req.method = "GET"
    /\ resp.status = 200
====
